---- MODULE Spec2Model ----
(***************************************************************************)
(* A model of deta/base.py: the Deta Base client (_Base) and insert_ttl.    *)
(*                                                                         *)
(* Every public operation is one action.  A call starts from pc = "idle",   *)
(* draws its arguments, the wall clock and the transport's reply from       *)
(* small sets, runs the whole method, and leaves in the state what the      *)
(* caller can observe afterwards: the objects it passed in (caller), the    *)
(* requests the transport received (sent), the reply the transport gave     *)
(* (reply) and the return value or the exception (outcome).                 *)
(*                                                                         *)
(* Python values are tagged records.  Numbers of seconds that may carry a   *)
(* fraction (float, datetime) are counted in ticks, SubSecond ticks to the  *)
(* second.  Mutable objects live in a heap (a sequence of objects, a        *)
(* reference is an index), so that a copy and an alias differ.              *)
(***************************************************************************)
EXTENDS Integers, Sequences, FiniteSets, TLC

VARIABLES pc, call, caller, sent, reply, outcome

vars == <<pc, call, caller, sent, reply, outcome>>

(***************************************************************************)
(* Bounds of the model.                                                    *)
(***************************************************************************)
\* ticks per second: the sub-second resolution of float and datetime values
SubSecond == 2
\* longest sequence of items drawn element by element for put_many
MaxItems == 2
\* how far beyond the batch ceiling the long batches of put_many go
MaxOver == 1
\* most attributes in an Update Request
MaxUpdates == 2

(***************************************************************************)
(* Program constants.                                                      *)
(***************************************************************************)
BASE_TTL_ATTRIBUTE == "__expires"
\* a ceiling one too high
BatchLimitLoose == 25 + 1

\* put_many: len(items) > 25
BatchLimit == 25
\* fetch: limit: int = 1000
DefaultLimit == 1000

(***************************************************************************)
(* Python values.                                                          *)
(***************************************************************************)
None == [t |-> "None"]
Str(s) == [t |-> "str", s |-> s]
Bool(b) == [t |-> "bool", b |-> b]
\* an int: v whole
PyInt(n) == [t |-> "int", v |-> n]
\* a float: v in ticks, v / SubSecond seconds
PyFloat(n) == [t |-> "float", v |-> n]
\* a datetime: the instant v ticks after the epoch; v % SubSecond is its
\* microsecond field, always >= 0
Datetime(n) == [t |-> "datetime", v |-> n]
\* a dict: d a function from attribute names to values
Dict(d) == [t |-> "dict", d |-> d]
List(l) == [t |-> "list", l |-> l]
\* a mapping with its iteration order: items the sequence of <<attr, value>>
Mapping(items) == [t |-> "mapping", items |-> items]

EmptyDict == [a \in {} |-> None]

\* Python's truth value of an object
Truthy(x) ==
  CASE x.t = "None" -> FALSE
    [] x.t = "str" -> Len(x.s) > 0
    [] x.t = "bool" -> x.b
    [] x.t \in {"int", "float"} -> x.v # 0
    [] x.t = "dict" -> DOMAIN x.d # {}
    [] x.t = "list" -> Len(x.l) > 0
    [] x.t = "mapping" -> Len(x.items) > 0
    [] OTHER -> TRUE

\* isinstance(x, (int, float)): bool is a subclass of int
IsNumber(x) == x.t \in {"int", "float", "bool"}

\* the value of a number in ticks
Ticks(x) ==
  CASE x.t = "int" -> x.v * SubSecond
    [] x.t = "bool" -> IF x.b THEN SubSecond ELSE 0
    [] OTHER -> x.v

\* int(x) of a number of x ticks: truncation towards zero
IntOfTicks(x) == IF x >= 0 THEN x \div SubSecond ELSE -((-x) \div SubSecond)

\* d[k] = v
SetItem(d, k, v) == [a \in DOMAIN d \cup {k} |-> IF a = k THEN v ELSE d[a]]

\* str(x) as used in the f-strings: the characters of x
StrOf(x) == IF x.t = "str" THEN x.s ELSE <<"N", "o", "n", "e">>

(***************************************************************************)
(* urllib.parse.quote(key, safe="")                                        *)
(***************************************************************************)
Unreserved == {"a", "b", "k", "1", "_", ".", "-", "~"}

PercentCode(c) ==
  CASE c = "/" -> <<"%", "2", "F">>
    [] c = " " -> <<"%", "2", "0">>
    [] c = "%" -> <<"%", "2", "5">>

RECURSIVE quote(_)
quote(s) ==
  IF s = <<>> THEN <<>>
  ELSE (IF Head(s) \in Unreserved THEN <<Head(s)>> ELSE PercentCode(Head(s)))
       \o quote(Tail(s))

(***************************************************************************)
(* Outcomes of a call and requests to the transport.                       *)
(***************************************************************************)
Return(v) == [kind |-> "return", value |-> v]
\* raise exc(msg.format(arg))
Raise(exc, msg, arg) == [kind |-> "raise", exc |-> exc, msg |-> msg, arg |-> arg]

NoReply == [code |-> 0, body |-> None]

\* self._request(path, method, body): path is prefix followed by key
Request(prefix, key, method, body) ==
  [prefix |-> prefix, key |-> key, method |-> method, body |-> body]

(***************************************************************************)
(* insert_ttl(item, ttl_attribute, expire_in, expire_at): item is          *)
(* heap[ref] and is changed in place.  now is what datetime.now() returns. *)
(***************************************************************************)
\* datetime + timedelta(seconds=...)
DatetimePlus(now, secs) == Datetime(now.v + Ticks(secs))

\* d.timestamp() with the microseconds still in it
TimestampWithMicroseconds(d) == PyFloat(d.v)

\* d.replace(microsecond=0).timestamp(): a float
ReplaceMicrosecondTimestamp(d) == PyFloat((d.v \div SubSecond) * SubSecond)

insert_ttl(heap, ref, ttl_attribute, expire_in, expire_at, now) ==
  IF Truthy(expire_in) /\ Truthy(expire_at)
  THEN [exc |-> "ValueError", msg |-> "mutually exclusive", heap |-> heap]
  ELSE IF ~Truthy(expire_in) /\ ~Truthy(expire_at)
  THEN [exc |-> "", msg |-> "", heap |-> heap]
  ELSE LET at1 == IF Truthy(expire_in) THEN DatetimePlus(now, expire_in)
                  ELSE expire_at
       IN IF at1.t # "datetime" /\ ~IsNumber(at1)
          THEN [exc |-> "TypeError", msg |-> "must be of type", heap |-> heap]
          ELSE LET at2 == IF at1.t = "datetime"
                          THEN ReplaceMicrosecondTimestamp(at1) ELSE at1
                   item == SetItem(heap[ref].d, ttl_attribute,
                                   PyInt(IntOfTicks(Ticks(at2))))
               IN [exc |-> "", msg |-> "",
                   heap |-> [heap EXCEPT ![ref] = Dict(item)]]

(***************************************************************************)
(* Inputs.                                                                 *)
(***************************************************************************)
K1 == <<"k", "1">>
K2 == <<"a", "/", "b">>

\* key arguments: missing, empty, plain, and one that quote changes
KeyInputs == {None, Str(<<>>), Str(K1), Str(K2)}

\* datetime.now()
Nows == {Datetime(2 * SubSecond + 1), Datetime(3 * SubSecond)}

\* expire_in: missing, zero, whole seconds, seconds with a fraction
ExpireInInputs == {None, PyInt(0), PyInt(1), PyFloat(SubSecond + 1)}

\* expire_at: missing, an int, a float before the epoch, datetimes after and
\* before the epoch with a microsecond part, and a value of a wrong type
ExpireAtInputs ==
  {None, PyInt(4), PyFloat(-(SubSecond + 1)),
   Datetime(2 * SubSecond + 1), Datetime(-(SubSecond + 1)), Str(<<"1">>)}

\* an item's attributes, one value each
ItemDicts ==
  {f \in UNION {[S -> {PyInt(7), Str(K1)}] : S \in SUBSET {"key", "a", BASE_TTL_ATTRIBUTE}} :
     \A a \in DOMAIN f : (a = "key") <=> (f[a].t = "str")}

DataInputs == {Dict(f) : f \in ItemDicts} \cup {PyInt(5)}

AnItem == Dict([key |-> Str(K1), a |-> PyInt(7)])

(***************************************************************************)
(* The transport collaborator (deta/service.py, _Service._request): what   *)
(* it may return to each operation, a status code and a decoded body.      *)
(***************************************************************************)
Reply(code, body) == [code |-> code, body |-> body]

InsertReplies ==
  {Reply(201, AnItem), Reply(200, AnItem), Reply(409, None), Reply(404, None),
   Reply(400, Dict([errors |-> List(<<>>)])), Reply(500, None)}

(***************************************************************************)
(* _Base.insert                                                            *)
(***************************************************************************)
insert(data, key, expire_in, expire_at, now, rep) ==
  LET \* the caller's object is heap[1]; data = data.copy() or {"value": data}
      h1 == <<data, IF data.t = "dict" THEN data ELSE Dict([value |-> data])>>
      h2 == IF Truthy(key)
            THEN [h1 EXCEPT ![2] = Dict(SetItem(h1[2].d, "key", key))]
            ELSE h1
      ttl == insert_ttl(h2, 2, BASE_TTL_ATTRIBUTE, expire_in, expire_at, now)
  IN IF ttl.exc # ""
     THEN [caller |-> ttl.heap[1], sent |-> <<>>, reply |-> NoReply,
           outcome |-> Raise(ttl.exc, ttl.msg, <<>>)]
     ELSE [caller |-> ttl.heap[1],
           sent |-> <<Request("/items", <<>>, "POST", [item |-> ttl.heap[2]])>>,
           reply |-> rep,
           outcome |-> IF rep.code = 201 THEN Return(rep.body)
                       ELSE IF rep.code = 409
                       THEN Raise("ValueError", "item with  key '{}' already exists",
                                  StrOf(key))
                       ELSE Return(None)]

(***************************************************************************)
(* _Base.put                                                               *)
(***************************************************************************)
PutReplies ==
  {Reply(207, Dict([processed |-> Dict([items |-> List(<<AnItem>>)])])),
   Reply(207, Dict([processed |-> Dict([items |-> List(<<>>)])])),
   Reply(207, Dict([failed |-> Dict([items |-> List(<<AnItem>>)])])),
   Reply(207, Dict(EmptyDict)), Reply(207, None),
   Reply(200, Dict([processed |-> Dict([items |-> List(<<AnItem>>)])])),
   Reply(400, Dict([errors |-> List(<<>>)])), Reply(404, None)}

\* res["processed"]["items"][0], with the errors the subscripts raise
ProcessedFirst(res) ==
  IF "processed" \notin DOMAIN res.d
  THEN Raise("KeyError", "processed", <<>>)
  ELSE LET processed == res.d["processed"]
       IN IF "items" \notin DOMAIN processed.d
          THEN Raise("KeyError", "items", <<>>)
          ELSE LET items == processed.d["items"]
               IN IF Len(items.l) = 0
                  THEN Raise("IndexError", "list index out of range", <<>>)
                  ELSE Return(items.l[1])

put(data, key, expire_in, expire_at, now, rep) ==
  LET h1 == <<data, IF data.t = "dict" THEN data ELSE Dict([value |-> data])>>
      h2 == IF Truthy(key)
            THEN [h1 EXCEPT ![2] = Dict(SetItem(h1[2].d, "key", key))]
            ELSE h1
      ttl == insert_ttl(h2, 2, BASE_TTL_ATTRIBUTE, expire_in, expire_at, now)
  IN IF ttl.exc # ""
     THEN [caller |-> ttl.heap[1], sent |-> <<>>, reply |-> NoReply,
           outcome |-> Raise(ttl.exc, ttl.msg, <<>>)]
     ELSE [caller |-> ttl.heap[1],
           sent |-> <<Request("/items", <<>>, "PUT",
                              [items |-> List(<<ttl.heap[2]>>)])>>,
           reply |-> rep,
           outcome |-> IF Truthy(rep.body) /\ rep.code = 207
                       THEN ProcessedFirst(rep.body)
                       ELSE Return(None)]

(***************************************************************************)
(* _Base.put_many                                                          *)
(***************************************************************************)
ItemInputs ==
  {PyInt(5), Dict(EmptyDict), Dict([a |-> PyInt(7)]),
   Dict([key |-> Str(K1), __expires |-> PyInt(7)])}

\* short batches of every make, and batches around the ceiling
ItemsInputs ==
  UNION {[1..n -> ItemInputs] : n \in 0..MaxItems}
  \cup {[i \in 1..n |-> x] : n \in (BatchLimit - 1)..(BatchLimit + MaxOver),
                             x \in {PyInt(5), Dict([a |-> PyInt(7)])}}

PutManyReplies ==
  {Reply(207, Dict([processed |-> Dict([items |-> List(<<AnItem>>)])])),
   Reply(207, Dict([failed |-> Dict([items |-> List(<<AnItem>>)])])),
   Reply(404, None)}

\* for item in items: ...; the caller's items are heap[1..n], i is the next
\* one, _items holds the references appended so far
RECURSIVE put_many_loop(_, _, _, _, _, _, _)
put_many_loop(heap, n, i, _items, expire_in, expire_at, now) ==
  IF i > n THEN [exc |-> "", msg |-> "", heap |-> heap, _items |-> _items]
  ELSE LET wrap == heap[i].t # "dict"
           h1 == IF wrap THEN Append(heap, Dict([value |-> heap[i]])) ELSE heap
           data == IF wrap THEN Len(h1) ELSE i
           ttl == insert_ttl(h1, data, BASE_TTL_ATTRIBUTE, expire_in, expire_at, now)
       IN IF ttl.exc # ""
          THEN [exc |-> ttl.exc, msg |-> ttl.msg, heap |-> ttl.heap, _items |-> _items]
          ELSE put_many_loop(ttl.heap, n, i + 1, Append(_items, data),
                             expire_in, expire_at, now)

put_many(items, expire_in, expire_at, now, rep) ==
  IF Len(items) > BatchLimit
  THEN [caller |-> items, sent |-> <<>>, reply |-> NoReply,
        outcome |-> Raise("ValueError", "cannot put more than 25 items", <<>>)]
  ELSE LET n == Len(items)
           loop == put_many_loop(items, n, 1, <<>>, expire_in, expire_at, now)
           after == SubSeq(loop.heap, 1, n)
       IN IF loop.exc # ""
          THEN [caller |-> after, sent |-> <<>>, reply |-> NoReply,
                outcome |-> Raise(loop.exc, loop.msg, <<>>)]
          ELSE [caller |-> after,
                sent |-> <<Request("/items", <<>>, "PUT",
                             [items |-> List([k \in 1..n |-> loop.heap[loop._items[k]]])])>>,
                reply |-> rep,
                outcome |-> Return(rep.body)]

(***************************************************************************)
(* _Base.get and _Base.delete                                              *)
(***************************************************************************)
GetReplies == {Reply(200, AnItem), Reply(404, None)}

get(key, rep) ==
  IF ~Truthy(key)
  THEN [caller |-> None, sent |-> <<>>, reply |-> NoReply,
        outcome |-> Raise("ValueError", "parameter 'key' must be a non-empty string", <<>>)]
  ELSE [caller |-> None,
        sent |-> <<Request("/items/", quote(key.s), "GET", None)>>,
        reply |-> rep,
        outcome |-> Return(rep.body)]

delete(key, rep) ==
  IF ~Truthy(key)
  THEN [caller |-> None, sent |-> <<>>, reply |-> NoReply,
        outcome |-> Raise("ValueError", "parameter 'key' must be a non-empty string", <<>>)]
  ELSE [caller |-> None,
        sent |-> <<Request("/items/", quote(key.s), "DELETE", None)>>,
        reply |-> rep,
        outcome |-> Return(None)]

(***************************************************************************)
(* FetchResponse and _Base.fetch                                           *)
(***************************************************************************)
\* FetchResponse.__init__ without the default for items
FetchResponseKeepNone(count, last, items) ==
  [t |-> "FetchResponse", count |-> count, last |-> last, items |-> items]

\* FetchResponse.__init__
FetchResponse(count, last, items) ==
  [t |-> "FetchResponse", count |-> count, last |-> last,
   items |-> IF items # None THEN items ELSE List(<<>>)]

Filter1 == Dict([a |-> PyInt(7)])
Filter2 == Dict([key |-> Str(K1)])

\* query: missing, one filter (empty or not), a list of filters
QueryInputs ==
  {None, Dict(EmptyDict), Filter1, List(<<>>), List(<<Filter1>>),
   List(<<Filter2, Filter1>>)}

LimitInputs == {PyInt(1), PyInt(DefaultLimit)}

LastInputs == {None, Bool(TRUE), Bool(FALSE), Str(K1)}

FetchReplies ==
  {Reply(200, Dict([paging |-> Dict([size |-> PyInt(1), last |-> Str(K2)]),
                    items |-> List(<<AnItem>>)])),
   Reply(200, Dict([paging |-> Dict([size |-> PyInt(0)]), items |-> List(<<>>)])),
   Reply(200, Dict([paging |-> Dict([size |-> PyInt(0)])])),
   Reply(200, Dict([items |-> List(<<AnItem>>)])),
   Reply(404, None)}

\* d.get(k)
DictGet(d, k) == IF k \in DOMAIN d.d THEN d.d[k] ELSE None

fetch(query, limit, last, rep) ==
  LET payload0 == [limit |-> limit,
                   last |-> IF last.t # "bool" THEN last ELSE None]
      \* isinstance(query, Sequence): a list is one, a dict is not
      payload == IF Truthy(query)
                 THEN SetItem(payload0, "query",
                              IF query.t = "list" THEN query ELSE List(<<query>>))
                 ELSE payload0
      res == rep.body
      request == <<Request("/query", <<>>, "POST", payload)>>
  IN IF res.t # "dict"
     THEN [caller |-> None, sent |-> request, reply |-> rep,
           outcome |-> Raise("AttributeError", "no attribute 'get'", <<>>)]
     ELSE LET paging == DictGet(res, "paging")
          IN IF paging.t # "dict"
             THEN [caller |-> None, sent |-> request, reply |-> rep,
                   outcome |-> Raise("AttributeError", "no attribute 'get'", <<>>)]
             ELSE [caller |-> None, sent |-> request, reply |-> rep,
                   outcome |-> Return(FetchResponse(DictGet(paging, "size"),
                                                    DictGet(paging, "last"),
                                                    DictGet(res, "items")))]

(***************************************************************************)
(* Util markers and _Base.update                                           *)
(***************************************************************************)
Trim == [t |-> "Trim"]
Increment(value) == [t |-> "Increment", value |-> value]
\* Util.Append.__init__ and Util.Prepend.__init__: a scalar becomes a list
Append_(value) ==
  [t |-> "Append", value |-> IF value.t = "list" THEN value ELSE List(<<value>>)]
Prepend(value) ==
  [t |-> "Prepend", value |-> IF value.t = "list" THEN value ELSE List(<<value>>)]

UpdateValues ==
  {Trim, Increment(PyInt(5)), Append_(List(<<PyInt(1), PyInt(2)>>)),
   Prepend(PyInt(0)), PyInt(7)}

UpdateAttrs == {"a", "b", BASE_TTL_ATTRIBUTE}

\* Update Requests: mappings of up to MaxUpdates distinct attributes, in
\* every order; and no mapping at all
UpdatesInputs ==
  {None} \cup
  {Mapping(items) :
     items \in {s \in UNION {[1..n -> UpdateAttrs \X UpdateValues] : n \in 0..MaxUpdates} :
                  \A i, j \in DOMAIN s : i # j => s[i][1] # s[j][1]}}

UpdateReplies == {Reply(200, None), Reply(404, None), Reply(500, None)}

EmptyPayload ==
  [set |-> EmptyDict, increment |-> EmptyDict, append |-> EmptyDict,
   prepend |-> EmptyDict, delete |-> <<>>]

\* for attr, value in updates.items(): ...
RECURSIVE classify(_, _)
classify(items, payload) ==
  IF items = <<>> THEN payload
  ELSE LET attr == Head(items)[1]
           value == Head(items)[2]
       IN classify(Tail(items),
            CASE value.t = "Trim" ->
                   [payload EXCEPT !.delete = Append(@, attr)]
              [] value.t = "Increment" ->
                   [payload EXCEPT !.increment = SetItem(@, attr, value.value)]
              [] value.t = "Append" ->
                   [payload EXCEPT !.append = SetItem(@, attr, value.value)]
              [] value.t = "Prepend" ->
                   [payload EXCEPT !.prepend = SetItem(@, attr, value.value)]
              [] OTHER ->
                   [payload EXCEPT !.set = SetItem(@, attr, value)])

update(updates, key, expire_in, expire_at, now, rep) ==
  IF ~Truthy(key)
  THEN [caller |-> updates, sent |-> <<>>, reply |-> NoReply,
        outcome |-> Raise("ValueError", "parameter 'key' must be a non-empty string", <<>>)]
  ELSE LET payload == IF Truthy(updates) THEN classify(updates.items, EmptyPayload)
                      ELSE EmptyPayload
           \* the caller's updates are heap[1], payload["set"] is heap[2]
           ttl == insert_ttl(<<updates, Dict(payload.set)>>, 2, BASE_TTL_ATTRIBUTE,
                             expire_in, expire_at, now)
       IN IF ttl.exc # ""
          THEN [caller |-> ttl.heap[1], sent |-> <<>>, reply |-> NoReply,
                outcome |-> Raise(ttl.exc, ttl.msg, <<>>)]
          ELSE [caller |-> ttl.heap[1],
                sent |-> <<Request("/items/", quote(key.s), "PATCH",
                                   [payload EXCEPT !.set = ttl.heap[2].d])>>,
                reply |-> rep,
                outcome |-> IF rep.code = 404
                            THEN Raise("ValueError", "key '{}' not found", StrOf(key))
                            ELSE Return(None)]

\* the state after a call c with result r
Done(c, r) ==
  /\ pc' = "done"
  /\ call' = c
  /\ caller' = r.caller
  /\ sent' = r.sent
  /\ reply' = r.reply
  /\ outcome' = r.outcome

\* insert_ttl called on a mapping of the caller's
InsertTtl ==
  /\ pc = "idle"
  /\ \E item \in ItemDicts, expire_in \in ExpireInInputs,
        expire_at \in ExpireAtInputs, now \in Nows :
       LET ttl == insert_ttl(<<Dict(item)>>, 1, BASE_TTL_ATTRIBUTE,
                             expire_in, expire_at, now)
       IN Done([op |-> "insert_ttl", item |-> Dict(item),
                expire_in |-> expire_in, expire_at |-> expire_at, now |-> now],
               [caller |-> ttl.heap[1], sent |-> <<>>, reply |-> NoReply,
                outcome |-> IF ttl.exc # "" THEN Raise(ttl.exc, ttl.msg, <<>>)
                            ELSE Return(None)])

Insert ==
  /\ pc = "idle"
  /\ \E data \in DataInputs, key \in KeyInputs, expire_in \in ExpireInInputs,
        expire_at \in ExpireAtInputs, now \in Nows, rep \in InsertReplies :
       Done([op |-> "insert", data |-> data, key |-> key,
             expire_in |-> expire_in, expire_at |-> expire_at, now |-> now],
            insert(data, key, expire_in, expire_at, now, rep))

Put ==
  /\ pc = "idle"
  /\ \E data \in DataInputs, key \in KeyInputs, expire_in \in ExpireInInputs,
        expire_at \in ExpireAtInputs, now \in Nows, rep \in PutReplies :
       Done([op |-> "put", data |-> data, key |-> key,
             expire_in |-> expire_in, expire_at |-> expire_at, now |-> now],
            put(data, key, expire_in, expire_at, now, rep))

PutMany ==
  /\ pc = "idle"
  /\ \E items \in ItemsInputs, expire_in \in ExpireInInputs,
        expire_at \in ExpireAtInputs, now \in Nows, rep \in PutManyReplies :
       Done([op |-> "put_many", items |-> items,
             expire_in |-> expire_in, expire_at |-> expire_at, now |-> now],
            put_many(items, expire_in, expire_at, now, rep))

Get ==
  /\ pc = "idle"
  /\ \E key \in KeyInputs, rep \in GetReplies :
       Done([op |-> "get", key |-> key], get(key, rep))

Delete ==
  /\ pc = "idle"
  /\ \E key \in KeyInputs, rep \in GetReplies :
       Done([op |-> "delete", key |-> key], delete(key, rep))

Fetch ==
  /\ pc = "idle"
  /\ \E query \in QueryInputs, limit \in LimitInputs, last \in LastInputs,
        rep \in FetchReplies :
       Done([op |-> "fetch", query |-> query, limit |-> limit, last |-> last],
            fetch(query, limit, last, rep))

Update ==
  /\ pc = "idle"
  /\ \E updates \in UpdatesInputs, key \in KeyInputs, expire_in \in ExpireInInputs,
        expire_at \in ExpireAtInputs, now \in Nows, rep \in UpdateReplies :
       Done([op |-> "update", updates |-> updates, key |-> key,
             expire_in |-> expire_in, expire_at |-> expire_at, now |-> now],
            update(updates, key, expire_in, expire_at, now, rep))

\* the caller takes the result; the client keeps nothing between calls
NextCall ==
  /\ pc = "done"
  /\ pc' = "idle"
  /\ call' = [op |-> "none"]
  /\ caller' = None
  /\ sent' = <<>>
  /\ reply' = NoReply
  /\ outcome' = Return(None)

Init ==
  /\ pc = "idle"
  /\ call = [op |-> "none"]
  /\ caller = None
  /\ sent = <<>>
  /\ reply = NoReply
  /\ outcome = Return(None)

Next == InsertTtl \/ Insert \/ Put \/ PutMany \/ Get \/ Delete \/ Fetch \/ Update \/ NextCall

Spec == Init /\ [][Next]_vars

(***************************************************************************)
(* What the claims speak of.                                               *)
(***************************************************************************)
Finished(ops) == pc = "done" /\ call.op \in ops

\* both expire_in and expire_at are truthy
TtlConflict == Truthy(call.expire_in) /\ Truthy(call.expire_at)

RaisedValueError == outcome.kind = "raise" /\ outcome.exc = "ValueError"

\* the object the caller passed in, as it was before the call
Passed ==
  CASE call.op \in {"insert", "put"} -> call.data
    [] call.op = "put_many" -> call.items
    [] call.op = "update" -> call.updates
    [] call.op = "insert_ttl" -> call.item

\* the request item sent carries the given element: the element itself, or
\* the element wrapped under "value", with at most the TTL attribute added
Carries(sentItem, given) ==
  LET base == IF given.t = "dict" THEN given.d ELSE [value |-> given]
  IN /\ sentItem.t = "dict"
     /\ DOMAIN base \subseteq DOMAIN sentItem.d
     /\ DOMAIN sentItem.d \subseteq DOMAIN base \cup {"__expires"}
     /\ \A a \in DOMAIN base \ {"__expires"} : sentItem.d[a] = base[a]

----------------------------------------------------------------------------
\* C1: every insert, put, put_many or update called with both expire_in and
\* expire_at truthy fails with ValueError, leaves the object passed in as it
\* was, and sends no request; put_many with an empty batch included.
C1_ConflictAlwaysRejected ==
  (Finished({"insert", "put", "put_many", "update"}) /\ TtlConflict)
    => (RaisedValueError /\ sent = <<>> /\ caller = Passed)

----------------------------------------------------------------------------
\* get, delete and update with a falsy key, and put_many with more than 25
\* items, raise ValueError and send nothing
InvalidArgumentsNotSent ==
  /\ (Finished({"get", "delete", "update"}) /\ ~Truthy(call.key))
       => (RaisedValueError /\ sent = <<>>)
  /\ (Finished({"put_many"}) /\ Len(call.items) > 25)
       => (RaisedValueError /\ sent = <<>>)

\* exactly one PUT /items request carrying all the items in their order
OnePutWithAllItems ==
  /\ Len(sent) = 1
  /\ sent[1].method = "PUT" /\ sent[1].prefix = "/items" /\ sent[1].key = <<>>
  /\ DOMAIN sent[1].body = {"items"}
  /\ Len(sent[1].body.items.l) = Len(call.items)
  /\ \A k \in 1..Len(call.items) : Carries(sent[1].body.items.l[k], call.items[k])

\* C2 as written: invalid arguments never reach the transport, and put_many
\* with at most 25 items and no TTL conflict sends exactly one PUT /items
\* request with all the items in order.
C2_Original ==
  /\ InvalidArgumentsNotSent
  /\ (Finished({"put_many"}) /\ Len(call.items) <= 25 /\ ~TtlConflict)
       => OnePutWithAllItems

\* expire_at is missing, a number or a datetime
ExpireAtTypeOk == call.expire_at.t \in {"None", "int", "float", "bool", "datetime"}

\* C2 as amended: invalid arguments never reach the transport, and put_many
\* with at most 25 items, no TTL conflict and an expire_at that is missing,
\* a number or a datetime sends exactly one PUT /items request with all the
\* items in order.
C2_InvalidNeverSent_ValidBatchSentOnce ==
  /\ InvalidArgumentsNotSent
  /\ (Finished({"put_many"}) /\ Len(call.items) <= 25 /\ ~TtlConflict
        /\ ExpireAtTypeOk)
       => OnePutWithAllItems

\* a full batch of wrapped items with a TTL has been sent in one request
C2_Witness ==
  /\ Finished({"put_many"}) /\ Len(call.items) = 25 /\ call.items[1].t = "int"
  /\ Truthy(call.expire_in) /\ Len(sent) = 1
  /\ Len(sent[1].body.items.l) = 25

----------------------------------------------------------------------------
BucketNames == {"set", "increment", "append", "prepend", "delete"}

InBucket(payload, b, a) ==
  IF b = "delete" THEN \E i \in DOMAIN payload.delete : payload.delete[i] = a
  ELSE a \in DOMAIN payload[b]

\* the bucket a value's marker names
BucketOf(value) ==
  CASE value.t = "Trim" -> "delete"
    [] value.t = "Increment" -> "increment"
    [] value.t = "Append" -> "append"
    [] value.t = "Prepend" -> "prepend"
    [] OTHER -> "set"

NamesIn(payload) ==
  UNION {DOMAIN payload[b] : b \in BucketNames \ {"delete"}}
  \cup {payload.delete[i] : i \in DOMAIN payload.delete}

UpdateItems == IF call.updates.t = "mapping" THEN call.updates.items ELSE <<>>

\* C3: the PATCH payload always has the five fields; every attribute of the
\* Update Request is in the bucket of its marker (an increment with its
\* delta, an append or prepend with its list) and in no other; no name, the
\* TTL attribute included, is in two buckets; an empty Update Request gives
\* empty buckets (set holding at most the TTL).
C3_OneBucketPerAttribute ==
  (Finished({"update"}) /\ Truthy(call.key) /\ sent # <<>>) =>
    LET payload == sent[1].body
    IN /\ sent[1].method = "PATCH"
       /\ DOMAIN payload = BucketNames
       /\ \A i \in DOMAIN UpdateItems :
            LET attr == UpdateItems[i][1]
                value == UpdateItems[i][2]
            IN /\ \A b \in BucketNames : InBucket(payload, b, attr) <=> (b = BucketOf(value))
               /\ BucketOf(value) \in {"increment", "append", "prepend"}
                    => payload[BucketOf(value)][attr] = value.value
       /\ \A a \in NamesIn(payload) :
            Cardinality({b \in BucketNames : InBucket(payload, b, a)}) <= 1
       /\ UpdateItems = <<>> =>
            /\ \A b \in BucketNames \ {"set", "delete"} : DOMAIN payload[b] = {}
            /\ payload.delete = <<>>
            /\ DOMAIN payload.set \subseteq {"__expires"}

----------------------------------------------------------------------------
\* C4: insert returns the created item of the reply on 201, and on 409
\* raises an error naming the key of the item it sent, whenever that item
\* carries a key, given as the key argument or as the key field of data.
C4_InsertNamesTheKey ==
  (Finished({"insert"}) /\ sent # <<>>) =>
    /\ reply.code = 201 => outcome = Return(reply.body)
    /\ (reply.code = 409 /\ "key" \in DOMAIN sent[1].body.item.d) =>
         /\ RaisedValueError
         /\ outcome.arg = sent[1].body.item.d["key"].s

----------------------------------------------------------------------------
\* C5: when the transport answers 404 to get(key) or to update(updates, key)
\* with a non-empty key, the call does not return: it raises an error that
\* carries the key as given, not URL-encoded.
C5_NotFoundRaised ==
  (Finished({"get", "update"}) /\ sent # <<>> /\ reply.code = 404) =>
    (outcome.kind = "raise" /\ outcome.arg = call.key.s)

----------------------------------------------------------------------------
SuccessCodes == {200, 201, 202, 207}

\* C6: when the transport returns to insert or update a status code that is
\* not a success and not the special-cased one (409 for insert, 404 for
\* update), the call raises and never returns normally.
C6_NoErrorSwallowed ==
  (Finished({"insert", "update"}) /\ sent # <<>>
     /\ reply.code \notin SuccessCodes
     /\ ~(call.op = "insert" /\ reply.code = 409)
     /\ ~(call.op = "update" /\ reply.code = 404))
    => outcome.kind = "raise"

----------------------------------------------------------------------------
\* the items the reply reports as processed
ProcessedItems ==
  IF reply.body.t = "dict" /\ "processed" \in DOMAIN reply.body.d
     /\ "items" \in DOMAIN reply.body.d["processed"].d
  THEN reply.body.d["processed"].d["items"].l
  ELSE <<>>

\* C7: put sends exactly one PUT /items request with a batch of one item; on
\* 207 with a processed item it returns the first one; when no item is
\* reported processed, or the status is not 207, or the body is empty, it
\* returns None and raises nothing.
C7_PutReturnsFirstOrNone ==
  (Finished({"put"}) /\ sent # <<>>) =>
    /\ Len(sent) = 1
    /\ sent[1].method = "PUT" /\ sent[1].prefix = "/items"
    /\ Len(sent[1].body.items.l) = 1
    /\ IF reply.code = 207 /\ Len(ProcessedItems) >= 1
       THEN outcome = Return(ProcessedItems[1])
       ELSE outcome = Return(None)

----------------------------------------------------------------------------
\* the one POST /query request of a fetch: limit as given, last as given but
\* None for a missing or boolean cursor, query the given list or the single
\* filter in a list, and left out exactly when omitted says so
FetchRequest(omitted) ==
  /\ Len(sent) = 1
  /\ sent[1].method = "POST" /\ sent[1].prefix = "/query" /\ sent[1].key = <<>>
  /\ sent[1].body["limit"] = call.limit
  /\ sent[1].body["last"] = IF call.last.t \in {"None", "bool"} THEN None ELSE call.last
  /\ ("query" \notin DOMAIN sent[1].body) <=> omitted
  /\ "query" \in DOMAIN sent[1].body =>
       sent[1].body["query"] = IF call.query.t = "list" THEN call.query
                               ELSE List(<<call.query>>)

\* the Fetch Response returned: count = paging.size, last = paging.last,
\* items the items of the reply, or the empty sequence without an items field
FetchResult ==
  outcome.kind = "return" =>
    LET res == reply.body.d
        paging == res["paging"].d
    IN /\ outcome.value.t = "FetchResponse"
       /\ outcome.value.count = (IF "size" \in DOMAIN paging THEN paging["size"] ELSE None)
       /\ outcome.value.last = (IF "last" \in DOMAIN paging THEN paging["last"] ELSE None)
       /\ outcome.value.items = (IF "items" \in DOMAIN res THEN res["items"] ELSE List(<<>>))

\* C8 as written: one POST /query per fetch; limit, last and query as above,
\* query left out exactly when no filter was given (no query, or a list of
\* no filters); the Fetch Response as above.
C8_Original ==
  Finished({"fetch"}) =>
    /\ FetchRequest(call.query = None \/ call.query = List(<<>>))
    /\ FetchResult

\* C8 as amended: the same, with query left out exactly when the query
\* argument is missing or empty: None, an empty list, or an empty filter {}.
C8_FetchOneRequest_QueryOmittedWhenFalsy ==
  Finished({"fetch"}) =>
    /\ FetchRequest(call.query = None \/ call.query = List(<<>>)
                    \/ call.query = Dict(EmptyDict))
    /\ FetchResult

\* a fetch with a single filter and a boolean cursor, answered without an
\* items field, has returned
C8_Witness ==
  /\ Finished({"fetch"}) /\ call.query = Filter1 /\ call.last = Bool(TRUE)
  /\ "items" \notin DOMAIN reply.body.d
  /\ outcome.kind = "return" /\ outcome.value.items = List(<<>>)
  /\ sent[1].body["query"] = List(<<Filter1>>)

----------------------------------------------------------------------------
\* insert_ttl changed the mapping at the TTL attribute only
OnlyTtlChanged ==
  /\ DOMAIN caller.d \ {"__expires"} = DOMAIN call.item.d \ {"__expires"}
  /\ DOMAIN call.item.d \subseteq DOMAIN caller.d
  /\ \A a \in DOMAIN call.item.d \ {"__expires"} : caller.d[a] = call.item.d[a]

\* n is the whole seconds of the instant x (in ticks): never above it
WholeSecondsOf(n, x) == n * SubSecond <= x /\ x < (n + 1) * SubSecond

\* an integer was written under the TTL attribute: the whole seconds of
\* now + expire_in, or of the datetime expire_at
TtlWritten ==
  /\ "__expires" \in DOMAIN caller.d
  /\ caller.d["__expires"].t = "int"
  /\ Truthy(call.expire_in) =>
       WholeSecondsOf(caller.d["__expires"].v, call.now.v + Ticks(call.expire_in))
  /\ (~Truthy(call.expire_in) /\ call.expire_at.t = "datetime") =>
       WholeSecondsOf(caller.d["__expires"].v, call.expire_at.v)

ExactlyOneSupplied == Truthy(call.expire_in) # Truthy(call.expire_at)

\* C9 as written: insert_ttl changes the mapping at the TTL attribute only;
\* with neither expire_in nor expire_at it changes nothing; with exactly one
\* it writes an integer there, the whole seconds of now + expire_in or of
\* the datetime, never rounded up.
C9_Original ==
  Finished({"insert_ttl"}) =>
    /\ OnlyTtlChanged
    /\ (~Truthy(call.expire_in) /\ ~Truthy(call.expire_at)) => caller = call.item
    /\ ExactlyOneSupplied => TtlWritten

\* C9 as amended: the same, where "exactly one is supplied" is an expire_in,
\* or an expire_at that is a number or a datetime.
C9_TtlWrittenOnlyAtTtlAttribute ==
  Finished({"insert_ttl"}) =>
    /\ OnlyTtlChanged
    /\ (~Truthy(call.expire_in) /\ ~Truthy(call.expire_at)) => caller = call.item
    /\ (ExactlyOneSupplied /\ (Truthy(call.expire_in) \/ ExpireAtTypeOk)) => TtlWritten

\* a datetime before the epoch with a microsecond part has overwritten the
\* TTL of a mapping that has another attribute
C9_Witness ==
  /\ Finished({"insert_ttl"}) /\ outcome.kind = "return"
  /\ call.expire_at.t = "datetime" /\ call.expire_at.v < 0
  /\ call.expire_at.v % SubSecond # 0
  /\ {"a", "__expires"} \subseteq DOMAIN call.item.d
  /\ caller.d["__expires"] # call.item.d["__expires"]

----------------------------------------------------------------------------
\* C10: insert, put, put_many and update leave the objects the caller passed
\* in as they were: the data mapping, every element of the items sequence,
\* the updates mapping.
C10_ArgumentsNotModified ==
  Finished({"insert", "put", "put_many", "update"}) => caller = Passed

====
